---------------------------- MODULE Spec2Model ----------------------------
(***************************************************************************)
(* Model of preprocessing/resampling.py: resample_shapefile (stratified    *)
(* resampling by quantile bins of a target attribute) and                  *)
(* resample_shapefile_spatially (resampling by cells of a regular grid     *)
(* over the bounding box).                                                 *)
(*                                                                         *)
(* Conventions.                                                            *)
(*  - A data frame is a sequence of rows; a row's pandas index i is the    *)
(*    position i+1 here, so index order is position order.                 *)
(*  - Reals are kept exact by scaling.  Bin edges are stored multiplied by *)
(*    Scale(bins); grid lines in x are stored multiplied by Scale(cols)    *)
(*    and grid lines in y multiplied by Scale(rows).  A value or a         *)
(*    coordinate is multiplied by the same factor before it is compared.   *)
(*  - The draws of DataFrame.sample come from numpy's global random state, *)
(*    which is no argument of either function: a draw is a nondeterministic*)
(*    choice among the outcomes numpy.random.choice can return.            *)
(*  - Library calls are modelled by what they do in the pandas release     *)
(*    that still has pd.tools.tile (0.19 and earlier): algos.quantile      *)
(*    interpolates linearly, _bins_to_cuts raises ValueError on repeated   *)
(*    edges, DataFrame.sample raises ValueError when asked for more rows   *)
(*    than there are without replacement, pd.concat raises ValueError on   *)
(*    an empty list.  Geometries are points; within is true of a point in  *)
(*    the interior of a cell only.                                         *)
(*  - Reading and writing the shapefile always succeed.                    *)
(***************************************************************************)
EXTENDS Integers, Sequences, FiniteSets

\* ------------------------------------------------------------ bounds
MaxN == 3
MaxVal == 3
MaxBins == 3
MaxGrid == 2
MaxOut == 3

\* output_samples=None (the default of both functions)
None == -1
\* numpy.nan: quantile of an empty array, bin label of an unassigned row
NaN == -2

\* Point geometries the input data sets are drawn from: the two corners of
\* the box [0,4] x [0,2] and three points on its middle line y = 1.
Points == { <<0, 0>>, <<4, 2>>, <<1, 1>>, <<2, 1>>, <<3, 1>> }
DefaultPoint == <<0, 0>>

VARIABLES
    mode,               \* "value": resample_shapefile, "spatial": resample_shapefile_spatially
    gdf_out,            \* rows of the input frame: [target |-> value, geometry |-> point]
    bins, rows, cols,   \* arguments
    replace,            \* argument
    output_samples,     \* argument: None or a number
    pc,                 \* position in the function body
    error,              \* "none" or the exception that ended the call
    raised_at,          \* 0 or the source line of the statement that raised it
    bin_edges,          \* value mode: edges, scaled by Scale(bins)
    result,             \* value mode: per row its bin label or NaN (column BIN)
    polygons,           \* spatial mode: grid cells in the order the code builds them
    samples_per_bin,    \* samples_per_bin / samples_per_group
    groups,             \* value mode: bin labels groupby iterates (ascending)
    k,                  \* loop position in groups / polygons
    dfs_to_concat,      \* the per-bin draws, each a sequence of row positions
    final_df,           \* row positions of the concatenated (and sorted) frame
    written,            \* number of to_file calls made on output_shapefile
    output_shapefile,   \* row positions written by to_file
    log,                \* positions (in polygons) of the cells logged as empty
    calls,              \* number of calls started with these arguments
    first_output,       \* output of the first call once a second was started
    va, vb, nb,         \* edge computation alone: two attribute vectors, bins
    ea, eb,             \* edge computation alone: their edges
    epc                 \* edge computation alone: "off", "input" or "computed"

vars == << mode, gdf_out, bins, rows, cols, replace, output_samples, pc, error,
           raised_at,
           bin_edges, result, polygons, samples_per_bin, groups, k,
           dfs_to_concat, final_df, written, output_shapefile, log,
           calls, first_output, va, vb, nb, ea, eb, epc >>

\* ------------------------------------------------------------ helpers
Range(s) == { s[i] : i \in 1..Len(s) }

SetMin(S) == CHOOSE x \in S : \A y \in S : x <= y
SetMax(S) == CHOOSE x \in S : \A y \in S : y <= x

RECURSIVE SortedSeqOf(_)
SortedSeqOf(S) == IF S = {} THEN << >>
                  ELSE << SetMin(S) >> \o SortedSeqOf(S \ {SetMin(S)})

RECURSIVE Flatten(_)
Flatten(ss) == IF ss = << >> THEN << >> ELSE Head(ss) \o Flatten(Tail(ss))

\* Insert x into a non-decreasing sequence after the elements <= x.
RECURSIVE InsertSorted(_, _)
InsertSorted(x, s) ==
    IF s = << >> THEN << x >>
    ELSE IF x < Head(s) THEN << x >> \o s
    ELSE << Head(s) >> \o InsertSorted(x, Tail(s))

RECURSIVE SortSeq(_)
SortSeq(s) == IF s = << >> THEN << >>
              ELSE InsertSorted(s[Len(s)], SortSeq(SubSeq(s, 1, Len(s) - 1)))

\* Factor that makes i/n an integer (n < 1: linspace yields at most the point 0).
Scale(n) == IF n >= 1 THEN n ELSE 1

\* ------------------------------------------------------------ value mode
\* gdf_out[target_field].values
target == [i \in 1..Len(gdf_out) |-> gdf_out[i].target]

\* np.unique: the sorted distinct values
np_unique(a) == SortedSeqOf(Range(a))

\* linspace without its end point (endpoint=False)
linspace_open(n) == [i \in 1..n |-> i - 1]

\* np.linspace(0, 1, n+1): the n+1 points i/n, given by their numerators i
\* (n = 0: the single point 0; n = -1: no point).
linspace(n) == [i \in 1..(n + 1) |-> i - 1]

\* pandas.core.algorithms.quantile(values, q), interpolation 'fraction', for q
\* the points i/n: score at idx = q * (len - 1), interpolated linearly between
\* values[int(idx)] and values[int(idx) + 1]; NaN for an empty array.
\* Result scaled by Scale(n).
get_score(values, i, n) ==
    IF Len(values) = 0 THEN NaN
    ELSE LET idx  == i * (Len(values) - 1)
             lo   == idx \div Scale(n)
             frac == idx % Scale(n)
         IN  IF frac = 0 THEN values[lo + 1] * Scale(n)
             ELSE values[lo + 1] * Scale(n) + (values[lo + 2] - values[lo + 1]) * frac

quantile(values, n) ==
    LET q == linspace(n) IN [j \in 1..Len(q) |-> get_score(values, q[j], n)]

\* quantiles of the raw values instead of the distinct ones
compute_edges_raw(a, n) == quantile(SortSeq(a), n)

\* lines 68-69
compute_edges(a, n) == quantile(np_unique(a), n)

\* searchsorted with side='right' (right=False): the number of edges <= x
searchsorted_right(edges, x) == Cardinality({ j \in 1..Len(edges) : edges[j] <= x })

\* ndarray.searchsorted(x, side='left') on sorted edges: the number of edges < x
searchsorted_left(edges, x) == Cardinality({ j \in 1..Len(edges) : edges[j] < x })

\* pd.tools.tile._bins_to_cuts(x, bins, right=True, labels=False,
\* include_lowest=True) for one value x (scaled): ids = searchsorted(left);
\* x == bins[0] gets ids 1; ids 0 or len(bins) is NaN; the label is ids - 1.
cut_id(edges, x) ==
    LET ids0 == searchsorted_left(edges, x)
        ids  == IF x = edges[1] THEN 1 ELSE ids0
    IN  IF ids = 0 \/ ids = Len(edges) THEN NaN ELSE ids - 1

\* the exception _bins_to_cuts raises, or "none"
cut_error(edges) ==
    IF Cardinality(Range(edges)) < Len(edges) THEN "ValueError"
    ELSE IF Len(edges) = 0 THEN "IndexError"
    ELSE "none"

bins_to_cuts(x, edges, n) == [i \in 1..Len(x) |-> cut_id(edges, x[i] * Scale(n))]

\* groupby(BIN): the labels present, ascending; rows labelled NaN are in no group
group_keys(res) == SortedSeqOf(Range(res) \ {NaN})
group_rows(res, b) == { i \in 1..Len(res) : res[i] = b }

\* the test written as `output_samples is not None`: 0 is taken as a total
total_samples_not_none(out, n) == IF out # None THEN out ELSE n

\* total_samples = output_samples if output_samples else gdf_out.shape[0]
total_samples(out, n) == IF out # None /\ out # 0 THEN out ELSE n

\* rounding the quota up instead of down
floordiv_ceil(a, b) == (a + b - 1) \div b

\* total_samples // bins, for bins >= 1
floordiv(a, b) == a \div b

\* DataFrame.sample(n, replace): numpy.random.choice(len, size=n, replace=replace)
\* picks row positions; without replacement they are distinct.
sample_error(members, n, rep) ==
    IF ~rep /\ n > Cardinality(members) THEN "ValueError" ELSE "none"

\* draws that ignore replace=False
sample_draws_repeats(members, n, rep) == [1..n -> members]

sample_draws(members, n, rep) ==
    { s \in [1..n -> members] :
        rep \/ \A i, j \in 1..n : i # j => s[i] # s[j] }

\* pd.concat of the list of draws
pd_concat(dfs) == Flatten(dfs)

\* the concatenated frame left as it is
sort_index_none(df) == df

\* final_df.sort_index(inplace=True)
sort_index(df) == SortSeq(df)


\* ------------------------------------------------------------ spatial mode
geometry == [i \in 1..Len(gdf_out) |-> gdf_out[i].geometry]

\* GeoSeries.total_bounds: <<minx, miny, maxx, maxy>>, NaN for an empty series
total_bounds(g) ==
    IF Len(g) = 0 THEN << NaN, NaN, NaN, NaN >>
    ELSE << SetMin({ g[i][1] : i \in 1..Len(g) }), SetMin({ g[i][2] : i \in 1..Len(g) }),
            SetMax({ g[i][1] : i \in 1..Len(g) }), SetMax({ g[i][2] : i \in 1..Len(g) }) >>

\* np.linspace(lo, hi, num=n+1), scaled by Scale(n)
grid_lines(lo, hi, n) ==
    [j \in 1..(n + 1) |-> IF lo = NaN THEN NaN ELSE lo * Scale(n) + (j - 1) * (hi - lo)]

\* the loops swapped: y the outer loop, x the inner one (row-major)
build_polygons_rowmajor(x_grid, y_grid) ==
    LET nx == Len(x_grid) - 1
        ny == Len(y_grid) - 1
    IN  IF nx < 1 \/ ny < 1 THEN << >>
        ELSE [p \in 1..(nx * ny) |->
                LET ri == (p - 1) \div nx
                    ci == (p - 1) % nx
                IN  [xs |-> x_grid[ci + 1], xe |-> x_grid[ci + 2],
                     ys |-> y_grid[ri + 1], ye |-> y_grid[ri + 2]]]

\* lines 116-119: x is the outer loop, y the inner one
build_polygons(x_grid, y_grid) ==
    LET nx == Len(x_grid) - 1
        ny == Len(y_grid) - 1
    IN  IF nx < 1 \/ ny < 1 THEN << >>
        ELSE [p \in 1..(nx * ny) |->
                LET ci == (p - 1) \div ny
                    ri == (p - 1) % ny
                IN  [xs |-> x_grid[ci + 1], xe |-> x_grid[ci + 2],
                     ys |-> y_grid[ri + 1], ye |-> y_grid[ri + 2]]]

\* shapely within for a point and a rectangle: the point lies in the interior
within(pt, p, nc, nr) ==
    /\ p.xs # NaN
    /\ p.xs < pt[1] * Scale(nc) /\ pt[1] * Scale(nc) < p.xe
    /\ p.ys < pt[2] * Scale(nr) /\ pt[2] * Scale(nr) < p.ye

\* gdf_out[gdf_out[GEOMETRY].within(p)]
cell_rows(g, p, nc, nr) == { i \in 1..Len(g) : within(g[i], p, nc, nr) }

\* ------------------------------------------------------------ initial states
Frames(n) ==
    UNION { [1..m -> { [target |-> v, geometry |-> DefaultPoint] : v \in 1..MaxVal }]
            : m \in 0..n }
\* Every frame of fewer than n points, and those frames with the two corners
\* of the box put in front (so that the box is proper and cells can hold rows).
PointRows == { [target |-> 1, geometry |-> pt] : pt \in Points }
CornerRows == << [target |-> 1, geometry |-> <<0, 0>>],
                 [target |-> 1, geometry |-> <<4, 2>>] >>
SpatialFrames(n) ==
    LET upto(j) == UNION { [1..m -> PointRows] : m \in 0..j }
    IN  upto(n - 1) \cup { CornerRows \o s : s \in upto(n - 1) }

Vectors(n) == UNION { [1..m -> 1..MaxVal] : m \in 1..n }

EdgesOff == va = << >> /\ vb = << >> /\ nb = 0 /\ ea = << >> /\ eb = << >> /\ epc = "off"

CallStart ==
    /\ pc = "start" /\ error = "none" /\ raised_at = 0
    /\ bin_edges = << >> /\ result = << >> /\ polygons = << >>
    /\ samples_per_bin = 0 /\ groups = << >> /\ k = 1
    /\ dfs_to_concat = << >> /\ final_df = << >>
    /\ written = 0 /\ output_shapefile = << >> /\ log = << >>

Init ==
    /\ \/ /\ mode = "value"
          /\ gdf_out \in Frames(MaxN)
          /\ bins \in (-1)..MaxBins
          /\ rows = 1 /\ cols = 1
       \/ /\ mode = "spatial"
          /\ gdf_out \in SpatialFrames(MaxN)
          /\ bins = 1
          /\ rows \in 0..MaxGrid /\ cols \in 0..MaxGrid
    /\ replace \in BOOLEAN
    /\ output_samples \in {None} \cup 0..MaxOut
    /\ CallStart
    /\ calls = 1 /\ first_output = << >>
    /\ EdgesOff

Fail(e, line) == pc' = "failed" /\ error' = e /\ raised_at' = line

\* ------------------------------------------------------------ resample_shapefile
\* lines 63-69
ValueEdges ==
    /\ mode = "value" /\ pc = "start"
    /\ bin_edges' = compute_edges(target, bins)
    /\ pc' = "edges"
    /\ UNCHANGED << mode, gdf_out, bins, rows, cols, replace, output_samples, error, raised_at,
                    result, polygons, samples_per_bin, groups, k, dfs_to_concat,
                    final_df, written, output_shapefile, log, calls, first_output,
                    va, vb, nb, ea, eb, epc >>

\* lines 70-74
ValueCuts ==
    /\ mode = "value" /\ pc = "edges"
    /\ IF cut_error(bin_edges) # "none"
       THEN Fail(cut_error(bin_edges), 70) /\ UNCHANGED result
       ELSE /\ result' = bins_to_cuts(target, bin_edges, bins)
            /\ pc' = "binned" /\ UNCHANGED << error, raised_at >>
    /\ UNCHANGED << mode, gdf_out, bins, rows, cols, replace, output_samples,
                    bin_edges, polygons, samples_per_bin, groups, k, dfs_to_concat,
                    final_df, written, output_shapefile, log, calls, first_output,
                    va, vb, nb, ea, eb, epc >>

\* lines 76-80
ValueQuota ==
    /\ mode = "value" /\ pc = "binned"
    /\ IF bins = 0
       THEN Fail("ZeroDivisionError", 78) /\ UNCHANGED << samples_per_bin, groups >>
       ELSE /\ samples_per_bin' =
                  floordiv(total_samples(output_samples, Len(gdf_out)), bins)
            /\ groups' = group_keys(result)
            /\ pc' = "sampling" /\ UNCHANGED << error, raised_at >>
    /\ UNCHANGED << mode, gdf_out, bins, rows, cols, replace, output_samples,
                    bin_edges, result, polygons, k, dfs_to_concat,
                    final_df, written, output_shapefile, log, calls, first_output,
                    va, vb, nb, ea, eb, epc >>

\* lines 81-82, one iteration
ValueSample ==
    /\ mode = "value" /\ pc = "sampling" /\ k <= Len(groups)
    /\ LET gr == group_rows(result, groups[k])
       IN  IF sample_error(gr, samples_per_bin, replace) # "none"
           THEN Fail(sample_error(gr, samples_per_bin, replace), 82)
                /\ UNCHANGED << k, dfs_to_concat >>
           ELSE /\ \E s \in sample_draws(gr, samples_per_bin, replace) :
                      dfs_to_concat' = Append(dfs_to_concat, s)
                /\ k' = k + 1
                /\ UNCHANGED << pc, error, raised_at >>
    /\ UNCHANGED << mode, gdf_out, bins, rows, cols, replace, output_samples,
                    bin_edges, result, polygons, samples_per_bin, groups,
                    final_df, written, output_shapefile, log, calls, first_output,
                    va, vb, nb, ea, eb, epc >>

\* lines 84-85
ValueConcat ==
    /\ mode = "value" /\ pc = "sampling" /\ k > Len(groups)
    /\ IF dfs_to_concat = << >>
       THEN Fail("ValueError", 84) /\ UNCHANGED final_df
       ELSE /\ final_df' = sort_index(pd_concat(dfs_to_concat))
            /\ pc' = "concat" /\ UNCHANGED << error, raised_at >>
    /\ UNCHANGED << mode, gdf_out, bins, rows, cols, replace, output_samples,
                    bin_edges, result, polygons, samples_per_bin, groups, k,
                    dfs_to_concat, written, output_shapefile, log, calls,
                    first_output, va, vb, nb, ea, eb, epc >>

\* to_file moved into the sampling loop: the draws made so far are written
ToFile_early ==
    /\ pc = "sampling" /\ dfs_to_concat # << >> /\ written = 0
    /\ output_shapefile' = Flatten(dfs_to_concat)
    /\ written' = written + 1
    /\ UNCHANGED << mode, gdf_out, bins, rows, cols, replace, output_samples, pc,
                    error, raised_at, bin_edges, result, polygons, samples_per_bin,
                    groups, k, dfs_to_concat, final_df, log, calls, first_output,
                    va, vb, nb, ea, eb, epc >>

\* lines 86 and 135
ToFile ==
    /\ pc = "concat"
    /\ output_shapefile' = final_df
    /\ written' = written + 1
    /\ pc' = "done"
    /\ UNCHANGED << mode, gdf_out, bins, rows, cols, replace, output_samples, error, raised_at,
                    bin_edges, result, polygons, samples_per_bin, groups, k,
                    dfs_to_concat, final_df, log, calls, first_output,
                    va, vb, nb, ea, eb, epc >>

\* ------------------------------------------------------------ resample_shapefile_spatially
\* lines 110-119
SpatialGrid ==
    /\ mode = "spatial" /\ pc = "start"
    /\ LET b == total_bounds(geometry)
       IN  polygons' = build_polygons(grid_lines(b[1], b[3], cols),
                                      grid_lines(b[2], b[4], rows))
    /\ pc' = "grid"
    /\ UNCHANGED << mode, gdf_out, bins, rows, cols, replace, output_samples, error, raised_at,
                    bin_edges, result, samples_per_bin, groups, k, dfs_to_concat,
                    final_df, written, output_shapefile, log, calls, first_output,
                    va, vb, nb, ea, eb, epc >>

\* lines 121-124
SpatialQuota ==
    /\ mode = "spatial" /\ pc = "grid"
    /\ IF Len(polygons) = 0
       THEN Fail("ZeroDivisionError", 124) /\ UNCHANGED samples_per_bin
       ELSE /\ samples_per_bin' =
                  floordiv(total_samples(output_samples, Len(gdf_out)), Len(polygons))
            /\ pc' = "sampling" /\ UNCHANGED << error, raised_at >>
    /\ UNCHANGED << mode, gdf_out, bins, rows, cols, replace, output_samples,
                    bin_edges, result, polygons, groups, k, dfs_to_concat,
                    final_df, written, output_shapefile, log, calls, first_output,
                    va, vb, nb, ea, eb, epc >>

\* lines 126-132, one iteration
SpatialCell ==
    /\ mode = "spatial" /\ pc = "sampling" /\ k <= Len(polygons)
    /\ LET df == cell_rows(geometry, polygons[k], cols, rows)
       IN  IF df = {}
           THEN /\ log' = Append(log, k)
                /\ k' = k + 1
                /\ UNCHANGED << pc, error, raised_at, dfs_to_concat >>
           ELSE IF sample_error(df, samples_per_bin, replace) # "none"
           THEN Fail(sample_error(df, samples_per_bin, replace), 130)
                /\ UNCHANGED << k, dfs_to_concat, log >>
           ELSE /\ \E s \in sample_draws(df, samples_per_bin, replace) :
                      dfs_to_concat' = Append(dfs_to_concat, s)
                /\ k' = k + 1
                /\ UNCHANGED << pc, error, raised_at, log >>
    /\ UNCHANGED << mode, gdf_out, bins, rows, cols, replace, output_samples,
                    bin_edges, result, polygons, samples_per_bin, groups,
                    final_df, written, output_shapefile, calls, first_output,
                    va, vb, nb, ea, eb, epc >>

\* line 134
SpatialConcat ==
    /\ mode = "spatial" /\ pc = "sampling" /\ k > Len(polygons)
    /\ IF dfs_to_concat = << >>
       THEN Fail("ValueError", 134) /\ UNCHANGED final_df
       ELSE /\ final_df' = pd_concat(dfs_to_concat)
            /\ pc' = "concat" /\ UNCHANGED << error, raised_at >>
    /\ UNCHANGED << mode, gdf_out, bins, rows, cols, replace, output_samples,
                    bin_edges, result, polygons, samples_per_bin, groups, k,
                    dfs_to_concat, written, output_shapefile, log, calls,
                    first_output, va, vb, nb, ea, eb, epc >>

Next ==
    \/ ValueEdges \/ ValueCuts \/ ValueQuota \/ ValueSample \/ ValueConcat
    \/ SpatialGrid \/ SpatialQuota \/ SpatialCell \/ SpatialConcat
    \/ ToFile

Spec == Init /\ [][Next]_vars

\* ------------------------------------------------------------ a second call
\* The caller runs the same function again with the same arguments.  The file
\* written by the first call stays until the second call overwrites it.
CallAgain ==
    /\ pc = "done" /\ calls = 1
    /\ calls' = 2
    /\ first_output' = output_shapefile
    /\ pc' = "start" /\ error' = "none" /\ raised_at' = 0
    /\ bin_edges' = << >> /\ result' = << >> /\ polygons' = << >>
    /\ samples_per_bin' = 0 /\ groups' = << >> /\ k' = 1
    /\ dfs_to_concat' = << >> /\ final_df' = << >>
    /\ written' = 0 /\ log' = << >>
    /\ UNCHANGED << mode, gdf_out, bins, rows, cols, replace, output_samples,
                    output_shapefile, va, vb, nb, ea, eb, epc >>

NextTwice == Next \/ CallAgain

SpecTwice == Init /\ [][NextTwice]_vars

\* ------------------------------------------------------------ edge computation alone
\* Lines 67-69 applied to two attribute vectors with the same number of bins.
InitEdges ==
    /\ mode = "value" /\ gdf_out = << >> /\ bins = 1 /\ rows = 1 /\ cols = 1
    /\ replace = TRUE /\ output_samples = None
    /\ pc = "off" /\ error = "none" /\ raised_at = 0
    /\ bin_edges = << >> /\ result = << >> /\ polygons = << >>
    /\ samples_per_bin = 0 /\ groups = << >> /\ k = 1
    /\ dfs_to_concat = << >> /\ final_df = << >>
    /\ written = 0 /\ output_shapefile = << >> /\ log = << >>
    /\ calls = 1 /\ first_output = << >>
    /\ va \in Vectors(MaxN) /\ vb \in Vectors(MaxN) /\ nb \in 1..MaxBins
    /\ ea = << >> /\ eb = << >> /\ epc = "input"

EdgesCompute ==
    /\ epc = "input"
    /\ ea' = compute_edges(va, nb)
    /\ eb' = compute_edges(vb, nb)
    /\ epc' = "computed"
    /\ UNCHANGED << mode, gdf_out, bins, rows, cols, replace, output_samples, pc,
                    error, raised_at, bin_edges, result, polygons, samples_per_bin,
                    groups, k, dfs_to_concat, final_df, written, output_shapefile,
                    log, calls, first_output, va, vb, nb >>

SpecEdges == InitEdges /\ [][EdgesCompute]_vars

\* ------------------------------------------------------------ properties
\* The declared number of bins (value mode) or grid cells (spatial mode).
Declared == IF mode = "value" THEN bins ELSE rows * cols

\* The requested total in effect: output_samples, or the input size.
TotalDesired == total_samples(output_samples, Len(gdf_out))

\* floor(TotalDesired / Declared), stated without division
FloorQuota ==
    CHOOSE q \in 0..TotalDesired :
        q * Declared <= TotalDesired /\ TotalDesired < (q + 1) * Declared

\* Rows of the b-th declared bin (label b-1) or of the b-th cell.
BinMembers(b) ==
    IF mode = "value" THEN group_rows(result, b - 1)
    ELSE cell_rows(geometry, polygons[b], cols, rows)

NonEmptyBins == { b \in 1..Declared : BinMembers(b) # {} }

\* Number of records of frame df that come from bin b.
Contribution(b, df) == Cardinality({ j \in 1..Len(df) : df[j] \in BinMembers(b) })

\* Every bin or cell has been sampled and the draws are concatenated.
Completed == pc \in {"concat", "done"}

SampleFailed == pc = "failed" /\ raised_at \in {82, 130}

\* Rows of the bin or cell the sampling loop stands at.
CurrentMembers ==
    IF mode = "value" THEN group_rows(result, groups[k])
    ELSE cell_rows(geometry, polygons[k], cols, rows)

NonDecreasing(s) == \A j \in 1..(Len(s) - 1) : s[j] <= s[j + 1]

\* C1: with replace=True every non-empty bin or cell contributes exactly
\* floor(total_desired / declared count) records and an empty one none, so the
\* output holds that quota times the number of non-empty bins, never more than
\* total_desired; the shortfall is not redistributed.
C1_QuotaFloor ==
    (replace /\ Completed) =>
        /\ \A b \in 1..Declared :
              Contribution(b, final_df) = IF b \in NonEmptyBins THEN FloorQuota ELSE 0
        /\ Len(final_df) = FloorQuota * Cardinality(NonEmptyBins)
        /\ Len(final_df) <= TotalDesired
        /\ pc = "done" => Len(output_shapefile) = Len(final_df)

\* C1 witness: a finished spatial call with replacement, two non-empty cells, a
\* positive quota and an output smaller than the requested total.
C1_Witness ==
    /\ mode = "spatial" /\ pc = "done" /\ replace
    /\ Cardinality(NonEmptyBins) >= 2
    /\ FloorQuota >= 1
    /\ Len(output_shapefile) < TotalDesired

\* C2 as stated: with replace=False a quota larger than a non-empty bin's
\* population is clamped: the call does not fail in the sampling step and the
\* bin contributes min(quota, bin size) records.
C2_ClampsSilently ==
    (~replace) =>
        /\ ~SampleFailed
        /\ Completed =>
              \A b \in NonEmptyBins :
                 Contribution(b, final_df) =
                    IF FloorQuota < Cardinality(BinMembers(b))
                    THEN FloorQuota ELSE Cardinality(BinMembers(b))

\* C2 amended: with replace=False there is no clamping.  A call fails in the
\* sample statement exactly at a non-empty bin smaller than the quota, with
\* ValueError and nothing written; a call that completes had every non-empty
\* bin at least as large as the quota, and each contributes exactly the quota,
\* every record at most once.
C2_NoClampFails ==
    (~replace) =>
        /\ SampleFailed =>
              /\ error = "ValueError"
              /\ CurrentMembers # {}
              /\ Cardinality(CurrentMembers) < samples_per_bin
              /\ written = 0 /\ output_shapefile = << >>
        /\ Completed =>
              /\ \A b \in NonEmptyBins :
                    /\ Cardinality(BinMembers(b)) >= FloorQuota
                    /\ Contribution(b, final_df) = FloorQuota
              /\ \A i, j \in 1..Len(final_df) : i # j => final_df[i] # final_df[j]

\* C2 witness: without replacement, a bin or cell holds two or more rows but
\* fewer than the quota, and the call has failed in the sample statement.
C2_Witness ==
    /\ ~replace /\ SampleFailed
    /\ Cardinality(CurrentMembers) >= 2
    /\ Cardinality(CurrentMembers) < samples_per_bin

\* C3: in value mode, for a non-empty attribute vector and bins >= 1, every
\* record is assigned exactly one bin id, in [0, bins), also when edges coincide.
C3_FullCoverage ==
    (mode = "value" /\ Len(gdf_out) >= 1 /\ bins >= 1 /\ pc \notin {"start", "edges"}) =>
        /\ Len(result) = Len(gdf_out)
        /\ \A i \in 1..Len(result) : result[i] \in 0..(bins - 1)

\* The label b (0-based) given to the scaled value v.
LeftClosed(v, b) ==
    \/ bin_edges[b + 1] <= v /\ v < bin_edges[b + 2]
    \/ v = bin_edges[Len(bin_edges)] /\ b = bins - 1
RightClosed(v, b) ==
    \/ bin_edges[b + 1] < v /\ v <= bin_edges[b + 2]
    \/ v = bin_edges[1] /\ b = 0

Binned == mode = "value" /\ bins >= 1 /\ result # << >>

\* C4 as stated: intervals are left-closed and right-open, edges[i] <= v <
\* edges[i+1], except that v == edges[-1] goes to the last bin.
C4_LeftClosed ==
    Binned => \A i \in 1..Len(result) :
                 result[i] # NaN => LeftClosed(target[i] * Scale(bins), result[i])

\* C4 amended: intervals are left-open and right-closed, edges[i] < v <=
\* edges[i+1]; a value equal to an interior edge edges[i] goes to bin i-1; the
\* only exception is v == edges[0], which goes to bin 0.
C4_RightClosed ==
    Binned => \A i \in 1..Len(result) :
                 /\ result[i] # NaN =>
                       RightClosed(target[i] * Scale(bins), result[i])
                 /\ \A j \in 2..(Len(bin_edges) - 1) :
                       target[i] * Scale(bins) = bin_edges[j] => result[i] = j - 2

\* C4 witness: a record whose value equals an interior edge is in the bin below.
C4_Witness ==
    /\ Binned
    /\ \E i \in 1..Len(result) : \E j \in 2..(Len(bin_edges) - 1) :
          target[i] * Scale(bins) = bin_edges[j] /\ result[i] = j - 2

\* C5: for a non-empty vector and bins >= 1 there are bins+1 edges, they are
\* non-decreasing, the first is the minimum and the last the maximum value.
C5_EdgesShape ==
    (mode = "value" /\ pc \notin {"start", "off"} /\ Len(gdf_out) >= 1 /\ bins >= 1) =>
        /\ Len(bin_edges) = bins + 1
        /\ NonDecreasing(bin_edges)
        /\ bin_edges[1] = SetMin(Range(target)) * bins
        /\ bin_edges[Len(bin_edges)] = SetMax(Range(target)) * bins

\* C5 witness: edges of a vector with a repeated value, one of them interpolated
\* between two values.
C5_Witness ==
    /\ mode = "value" /\ pc = "edges" /\ bins >= 2
    /\ Cardinality(Range(target)) < Len(target)
    /\ \E j \in 1..Len(bin_edges) :
          \A i \in 1..Len(target) : bin_edges[j] # target[i] * bins

\* C6: the edges depend only on the set of distinct values: two vectors with
\* the same distinct values have the same edges for the same bins.
C6_EdgesFromUnique ==
    (epc = "computed" /\ Range(va) = Range(vb)) => ea = eb

\* C6 witness: edges computed for two vectors of different lengths with the
\* same two or more distinct values.
C6_Witness ==
    /\ epc = "computed" /\ Range(va) = Range(vb)
    /\ Len(va) # Len(vb) /\ Cardinality(Range(va)) >= 2 /\ nb >= 2
    /\ ea = eb

\* C7: in value mode the record indices of the output are non-decreasing.
C7_OrderRestored ==
    (mode = "value") =>
        /\ Completed => NonDecreasing(final_df)
        /\ NonDecreasing(output_shapefile)

\* C7 witness: a written value-mode output whose draws, as concatenated, were
\* not in index order.
C7_Witness ==
    /\ mode = "value" /\ pc = "done"
    /\ ~NonDecreasing(pd_concat(dfs_to_concat))
    /\ Len(output_shapefile) >= 2

\* The point lies in the closed rectangle of the cell.
ClosedIn(pt, p, nc, nr) ==
    /\ p.xs <= pt[1] * Scale(nc) /\ pt[1] * Scale(nc) <= p.xe
    /\ p.ys <= pt[2] * Scale(nr) /\ pt[2] * Scale(nr) <= p.ye

ProperBox ==
    LET b == total_bounds(geometry) IN Len(geometry) > 0 /\ b[1] < b[3] /\ b[2] < b[4]

\* C8: a point on a boundary or corner shared by several cells is a member of
\* exactly one cell, the first in enumeration order whose rectangle holds it.
C8_SharedBoundaryOnce ==
    (mode = "spatial" /\ polygons # << >> /\ ProperBox) =>
        \A i \in 1..Len(geometry) :
            LET touching == { j \in 1..Len(polygons) :
                                ClosedIn(geometry[i], polygons[j], cols, rows) }
                holding  == { j \in 1..Len(polygons) :
                                i \in cell_rows(geometry, polygons[j], cols, rows) }
            IN  Cardinality(touching) >= 2 => holding = { SetMin(touching) }

\* C9: two calls with identical inputs produce identical output index sequences.
C9_Reproducible ==
    (calls = 2 /\ pc = "done") => output_shapefile = first_output

BadParameters ==
    \/ mode = "value" /\ (bins < 1 \/ Len(gdf_out) = 0)
    \/ mode = "spatial" /\ (rows < 1 \/ cols < 1)

\* C10: a call with bins < 1, rows < 1, cols < 1 or an empty attribute vector
\* fails with InvalidInputError in validation, before edges or a grid are
\* computed, a sample is drawn or an output is written.
C10_ValidatedFirst ==
    (BadParameters /\ pc # "off") =>
        /\ pc \in {"start", "failed"}
        /\ pc = "failed" =>
              /\ error = "InvalidInputError"
              /\ bin_edges = << >> /\ result = << >> /\ polygons = << >>
              /\ dfs_to_concat = << >> /\ written = 0

\* C11: when a call returns, every declared bin (value mode) or cell (spatial
\* mode) without members has been reported in the log.
C11_EmptyReported ==
    pc = "done" =>
        \A b \in 1..Declared : BinMembers(b) = {} => b \in Range(log)

\* C12: in spatial mode with rows, cols >= 1 cells without records are no
\* error: once every cell has been visited the call goes on with the draws of
\* the non-empty cells, and returns an empty result when every cell is empty.
C12_EmptyCellsNoError ==
    (mode = "spatial" /\ rows >= 1 /\ cols >= 1) =>
        /\ ~(pc = "failed" /\ raised_at = 134)
        /\ Completed => final_df = Flatten(dfs_to_concat)
        /\ (pc = "done" /\ NonEmptyBins = {}) => output_shapefile = << >>

\* The cell at column c and row r (0-based) of the grid over the bounding box,
\* scaled like polygons.
CellAt(c, r) ==
    LET b == total_bounds(geometry)
    IN  [xs |-> b[1] * cols + c * (b[3] - b[1]),
         xe |-> b[1] * cols + (c + 1) * (b[3] - b[1]),
         ys |-> b[2] * rows + r * (b[4] - b[2]),
         ye |-> b[2] * rows + (r + 1) * (b[4] - b[2])]

GridBuilt == mode = "spatial" /\ pc # "start" /\ rows >= 1 /\ cols >= 1 /\ Len(gdf_out) > 0

\* The position in polygons of the one cell that holds row i, 0 if none does.
CellOf(i) ==
    LET holding == { j \in 1..Len(polygons) :
                       i \in cell_rows(geometry, polygons[j], cols, rows) }
    IN  IF holding = {} THEN 0 ELSE SetMin(holding)

\* The cells are visited, and their draws concatenated, in the order of polygons.
InCellOrder ==
    /\ NonDecreasing(log)
    /\ Completed =>
          /\ final_df = Flatten(dfs_to_concat)
          /\ \A i, j \in 1..Len(final_df) :
                i < j => CellOf(final_df[i]) <= CellOf(final_df[j])

LoopFinished ==
    IF mode = "value" THEN k > Len(groups) ELSE k > Len(polygons)

\* C14: a failure in any step aborts the call with no partial output: the
\* output is written at most once, as the last step after every bin or cell
\* was sampled, and a failed call has written nothing.
C14_NoPartialOutput ==
    /\ written <= 1
    /\ pc = "failed" => written = 0 /\ output_shapefile = << >>
    /\ written = 1 =>
          /\ pc = "done" /\ error = "none"
          /\ LoopFinished
          /\ output_shapefile = final_df
    /\ pc # "done" => written = 0

\* C14 witness: the sampling loop has passed a cell and then failed at the
\* next one; nothing is written.
C14_Witness ==
    /\ SampleFailed /\ k >= 2
    /\ written = 0 /\ output_shapefile = << >>

\* The quota has been computed.
QuotaComputed ==
    \/ pc \in {"sampling", "concat", "done"}
    \/ pc = "failed" /\ raised_at \in {82, 84, 130, 134}

\* C15: an output_samples of 0 is taken like None: the total is the number of
\* input records and the quota is input size // declared count, not 0.
C15_ZeroIsUnset ==
    (QuotaComputed /\ output_samples \in {0, None}) =>
        /\ samples_per_bin * Declared <= Len(gdf_out)
        /\ Len(gdf_out) < (samples_per_bin + 1) * Declared

\* C15 witness: a call with output_samples=0 has returned a non-empty output
\* drawn with a positive quota.
C15_Witness ==
    /\ output_samples = 0 /\ pc = "done"
    /\ samples_per_bin >= 1
    /\ samples_per_bin * Declared <= Len(gdf_out)
    /\ Len(output_shapefile) >= 1

=============================================================================
